---------------------------- MODULE Spec2Model ----------------------------
(***************************************************************************)
(* A model of src/src/unravel/stream.py: the skeleton (mean trajectory)    *)
(* of a bundle of streamlines, the distance to its median trajectory, the  *)
(* density filter of outlier streamlines and the sections of the bundle.   *)
(*                                                                         *)
(* Coordinates are fixed-point integers (a voxel is VoxelUnit units wide), *)
(* where the code computes in doubles: a division rounds down here.  An    *)
(* array of the code is a function on 0..n-1, so that an index of the      *)
(* model is the index of the code.  A numpy array that holds NaN is kept   *)
(* as the flag isnan beside it: every comparison with NaN is False.        *)
(***************************************************************************)
EXTENDS Integers, Sequences, FiniteSets, TLC

VARIABLES
    pc,                 \* the position of the running function
    streams,            \* trk.streamlines: a sequence of curves
    point_array,        \* the nodes of the mean trajectory
    normal_array,       \* extract_nodes: the normal kept for each node
    isnan,              \* extract_nodes: point_array holds NaN
    level, smooth,      \* extract_nodes: its parameters
    selec_streamlines,  \* the long streamlines the end points are averaged over
    loop_j, loop_i,     \* the loop variables j and i
    idx,                \* the crossing indexes of the last plane
    center,             \* the center of mass of tract_to_ROI(trk_file)
    mean_start, mean_end, \* m_start and m_end once the orientation is resolved
    caller,             \* who called get_dist_from_median_trajectory
    compute_dist,       \* get_dist_from_median_trajectory: its parameter
    dist, median_array, \* get_dist_from_median_trajectory: its two results
    trk_roi,            \* tract_to_ROI(trk_file): 1 in the voxels of the bundle
    simplify_shape,     \* get_roi_sections_from_nodes: its parameter
    mask,               \* get_roi_sections_from_nodes: the labeled volume
    m_previous, m_next, \* the neighbour nodes of the last section
    roi_mp_slice,       \* the voxels of the bundle between the two planes
    roi_score,          \* roi = roi_mp_slice + roi_mp_com of the last section
    roi,                \* roi when the last section is labeled
    dens,               \* remove_outlier_streamlines: density per node and curve
    t,                  \* the density threshold neighbors_required/(2*pi*bandwidth**2)
    outlier_ratio, keep_ratio, remove_outlier_dir, \* its parameters
    neighbors_required_dir, \* its parameter, read by the direction pass
    n_idx,              \* the streamlines to remove
    capped,             \* whether the keep_ratio branch of line 399 was taken
    removed,            \* the streamlines remove_streamlines left out
    err                 \* the exception that ended the function, or "none"

nodesVars == <<normal_array, isnan, level, smooth, selec_streamlines, loop_j,
               mean_start, mean_end>>

distVars == <<caller, compute_dist, dist, median_array>>

roiVars == <<trk_roi, simplify_shape, mask, m_previous, m_next, roi_mp_slice,
             roi_score, roi>>

outVars == <<dens, t, outlier_ratio, keep_ratio, remove_outlier_dir,
             neighbors_required_dir, n_idx, capped, removed>>

vars == <<pc, streams, point_array, loop_i, idx, center, err, nodesVars,
          distVars, roiVars, outVars>>

---------------------------------------------------------------------------
(* Bounds of the model *)

MaxCurves == 2
MaxLen == 3
MaxLevel == 2
MaxNodes == 3
ShapeX == 3
MaxCoord == 3
OutCurves == 3
OutNodes == 4

---------------------------------------------------------------------------
(* Vectors of three coordinates *)

Zero3 == <<0, 0, 0>>

VAdd(a, b) == <<a[1] + b[1], a[2] + b[2], a[3] + b[3]>>

VSub(a, b) == <<a[1] - b[1], a[2] - b[2], a[3] - b[3]>>

VDot(a, b) == a[1] * b[1] + a[2] * b[2] + a[3] * b[3]

VScale(k, a) == <<k * a[1], k * a[2], k * a[3]>>

VDiv(a, k) == <<a[1] \div k, a[2] \div k, a[3] \div k>>

Abs(x) == IF x < 0 THEN -x ELSE x

Pow2(n) == 2 ^ n

Range(f) == {f[x] : x \in DOMAIN f}

RECURSIVE SetSum(_, _)
SetSum(S, f) ==
    IF S = {} THEN 0
    ELSE LET x == CHOOSE y \in S : TRUE IN f[x] + SetSum(S \ {x}, f)

\* np.mean(points, axis=0) of the rows S of the array data
VMean(S, data) ==
    <<SetSum(S, [k \in S |-> data[k][1]]) \div Cardinality(S),
      SetSum(S, [k \in S |-> data[k][2]]) \div Cardinality(S),
      SetSum(S, [k \in S |-> data[k][3]]) \div Cardinality(S)>>

---------------------------------------------------------------------------
(* The curve-set: nibabel's ArraySequence *)

RECURSIVE Flatten(_)
Flatten(s) == IF s = <<>> THEN <<>> ELSE Head(s) \o Flatten(Tail(s))

RECURSIVE SumLen(_, _)
SumLen(s, k) == IF k = 0 THEN 0 ELSE Len(s[k]) + SumLen(s, k - 1)

NCurves(s) == Len(s)

\* streams._offsets: the flattened index of the first point of each curve
Offsets(s) == [k \in 0 .. Len(s) - 1 |-> SumLen(s, k)]

\* streams._lengths: the number of points of each curve
Lengths(s) == [k \in 0 .. Len(s) - 1 |-> Len(s[k + 1])]

\* streams.get_data(): every point, curve after curve
StreamsData(s) ==
    LET flat == Flatten(s)
    IN [n \in 0 .. Len(flat) - 1 |-> flat[n + 1]]

\* A curve of n points from p by steps of d
Curve(p, d, n) == [k \in 1 .. n |-> VAdd(p, VScale(k - 1, d))]

\* The curve-sets of the model: at most MaxCurves curves of 2 to MaxLen points
\* each, stored forward or reversed, along x on two parallel lines
StartPts == {<<0, 0, 0>>, <<8, 4, 4>>}

Steps == {<<4, 0, 0>>, <<-4, 0, 0>>}

Curves == {Curve(p, d, n) : p \in StartPts, d \in Steps, n \in 2 .. MaxLen}

StreamSets == UNION {[1 .. n -> Curves] : n \in 1 .. MaxCurves}

\* The places of the nodes of a mean trajectory given as a parameter
NodePts == {<<2, 0, 0>>, <<6, 0, 0>>, <<10, 4, 0>>}

\* The mean trajectories given as a parameter: 2 to MaxNodes nodes
Skeletons == UNION {[0 .. n - 1 -> NodePts] : n \in 2 .. MaxNodes}

\* The centers of mass of the volume of the bundle
CenterPts == {<<4, 0, 0>>, <<8, 4, 4>>}

\* The skeletons of n nodes whose sections all have a length: no node is the
\* node before it
Polylines(n) ==
    {p \in [0 .. n - 1 -> NodePts] : \A k \in 0 .. n - 2 : p[k] # p[k + 1]}

PolylineSkeletons == UNION {Polylines(n) : n \in 2 .. MaxNodes}

\* The inputs of remove_outlier_streamlines: at most OutCurves curves and
\* skeletons of 2 to OutNodes nodes
OutStreamSets == UNION {[1 .. n -> Curves] : n \in 1 .. OutCurves}

OutSkeletons == UNION {Polylines(n) : n \in 2 .. OutNodes}

---------------------------------------------------------------------------
(* Crossings of a plane *)

\* np.where(np.sum(ns*normal, axis=1) > 0, 1, 0)
Sign01(data, midpoint, normal) ==
    [k \in DOMAIN data |->
        IF VDot(VSub(data[k], midpoint), normal) > 0 THEN 1 ELSE 0]

\* np.where(... > 0, 1, -1) of one point
SignPM(p, origin, normal) ==
    IF VDot(VSub(p, origin), normal) > 0 THEN 1 ELSE -1

\* np.argwhere(abs(np.roll(sign, 1)-sign) == 1)
SignChanges(sign) ==
    LET n == Cardinality(DOMAIN sign)
    IN {k \in DOMAIN sign : Abs(sign[(k + n - 1) % n] - sign[k]) = 1}

\* The filter that would let the index 0 through: the wrap of np.roll
KeepAfterFirstCurve(ix, s) ==
    LET offsets == Range(Offsets(s)) IN {k \in ix : k = 0 \/ k \notin offsets}

\* filter(lambda x: x not in streams._offsets, idx)
NotInOffsets(ix, s) ==
    LET offsets == Range(Offsets(s)) IN {k \in ix : k \notin offsets}

\* extract_nodes: the points out of the window of the two bracketing planes
IdxFilter(data, m_start, m_end, normal_previous, normal_next) ==
    LET midpoint == VDiv(VAdd(m_start, m_end), 2)
        mp_sign_previous == SignPM(midpoint, m_start, normal_previous)
        mp_sign_next == SignPM(midpoint, m_end, normal_next)
    IN {k \in DOMAIN data :
           ~ (SignPM(data[k], m_start, normal_previous) = mp_sign_previous
              /\ SignPM(data[k], m_end, normal_next) = mp_sign_next)}

\* extract_nodes: the crossings of the midplane of a window
BisectionCrossings(s, m_start, m_end, normal_previous, normal_next) ==
    LET data == StreamsData(s)
        midpoint == VDiv(VAdd(m_start, m_end), 2)
        normal == VSub(m_start, m_end)
        sign == Sign01(data, midpoint, normal)
    IN NotInOffsets(SignChanges(sign), s)
           \ IdxFilter(data, m_start, m_end, normal_previous, normal_next)

\* get_dist_from_median_trajectory: the crossings of the plane of node i
MedianCrossings(s, points, i, com) ==
    LET data == StreamsData(s)
        midpoint == points[i]
        normal == VSub(points[i - 1], points[i + 1])
        sign == Sign01(data, midpoint, normal)
        com_filter == {k \in DOMAIN data :
                          VDot(VSub(midpoint, com), VSub(data[k], com)) < 0}
    IN NotInOffsets(SignChanges(sign), s) \ com_filter

\* remove_outlier_streamlines: the crossings of the plane of node i
DensityCrossings(s, points, i) ==
    LET data == StreamsData(s)
        midpoint == points[i]
        normal == VSub(points[i - 1], points[i + 1])
        sign == Sign01(data, midpoint, normal)
    IN NotInOffsets(SignChanges(sign), s)

---------------------------------------------------------------------------
(* The orientation of the bundle: extract_nodes, lines 44 to 79 *)

\* The value at place k (from 0) of the values f[x], x in S, in increasing order
KthSmallest(f, S, k) ==
    CHOOSE v \in {f[x] : x \in S} :
        /\ Cardinality({x \in S : f[x] < v}) <= k
        /\ k < Cardinality({x \in S : f[x] <= v})

\* Four times np.percentile(a, q), q = 25 * quarter, by linear interpolation
Percentile4(a, quarter) ==
    LET n == Cardinality(DOMAIN a)
        k == (quarter * (n - 1)) \div 4
        r == (quarter * (n - 1)) % 4
        lo == KthSmallest(a, DOMAIN a, k)
    IN IF r = 0 THEN 4 * lo
       ELSE 4 * lo + r * (KthSmallest(a, DOMAIN a, k + 1) - lo)

Q1x4(s) == Percentile4(Lengths(s), 1)

Q3x4(s) == Percentile4(Lengths(s), 3)

\* long_streamlines = streams._lengths > q3
LongStreamlines(s) ==
    LET lengths == Lengths(s)
        q3 == Q3x4(s)
    IN {c \in DOMAIN lengths : 4 * lengths[c] > q3}

\* outlier_streamlines = streams._lengths > q3+1.5*(q3-q1)
OutlierStreamlines(s) ==
    LET lengths == Lengths(s)
        q1 == Q1x4(s)
        q3 == Q3x4(s)
    IN {c \in DOMAIN lengths : 8 * lengths[c] > 2 * q3 + 3 * (q3 - q1)}

\* selec_streamlines = long_streamlines*~outlier_streamlines
SelecStreamlines(s) == LongStreamlines(s) \ OutlierStreamlines(s)

\* end_0 = streams_data[streams._offsets, :]
End0(s) == [c \in 0 .. Len(s) - 1 |-> s[c + 1][1]]

\* end_1 = np.roll(streams_data[streams._offsets-1, :], -1, axis=0)
End1(s) ==
    LET data == StreamsData(s)
        n == Cardinality(DOMAIN data)
        offsets == Offsets(s)
        before == [c \in 0 .. Len(s) - 1 |->
                                data[(offsets[c] + n - 1) % n]]
    IN [c \in 0 .. Len(s) - 1 |-> before[(c + 1) % Len(s)]]

\* start and end of each curve, swapped in the cluster of label 1
StartOf(s, labels) ==
    LET end_0 == End0(s)
        end_1 == End1(s)
    IN [c \in 0 .. Len(s) - 1 |->
                     IF labels[c] = 1 THEN end_1[c] ELSE end_0[c]]

EndOf(s, labels) ==
    LET end_0 == End0(s)
        end_1 == End1(s)
    IN [c \in 0 .. Len(s) - 1 |->
                     IF labels[c] = 1 THEN end_0[c] ELSE end_1[c]]

\* np.argmax and np.argmin of a vector: the first of the axes 1, 2, 3
ArgMax(v) == CHOOSE a \in 1 .. 3 :
    /\ \A b \in 1 .. 3 : v[b] <= v[a]
    /\ \A b \in 1 .. a - 1 : v[b] < v[a]

ArgMin(v) == CHOOSE a \in 1 .. 3 :
    /\ \A b \in 1 .. 3 : v[b] >= v[a]
    /\ \A b \in 1 .. a - 1 : v[b] > v[a]

\* The last of the two axes that are not the smallest
LastMainAxis(small_dir) == IF small_dir = 3 THEN 2 ELSE 3

\* idx = 1 if small_dir == 0 else 0 (the axes of the model count from 1)
TieBreakAxis(small_dir) == IF small_dir = 1 THEN 2 ELSE 1

\* Whether m_start and m_end are swapped: lines 67 to 79
SwapEnds(ms, me) ==
    LET diff_abs == <<Abs(ms[1] - me[1]), Abs(ms[2] - me[2]), Abs(ms[3] - me[3])>>
        total == diff_abs[1] + diff_abs[2] + diff_abs[3]
        main_dir == ArgMax(diff_abs)
        small_dir == ArgMin(diff_abs)
        vote == (IF ms[1] - me[1] > 0 THEN 1 ELSE -1)
                + (IF ms[2] - me[2] > 0 THEN 1 ELSE -1)
                + (IF ms[3] - me[3] > 0 THEN 1 ELSE -1)
    IN IF diff_abs[main_dir] > total - diff_abs[main_dir]
       THEN ms[main_dir] > me[main_dir]
       ELSE IF 4 * diff_abs[small_dir] < total - diff_abs[small_dir]
       THEN ms[TieBreakAxis(small_dir)] > me[TieBreakAxis(small_dir)]
       ELSE vote > 0

\* diff_abs = np.abs(m_start-m_end)
DiffAbs(ms, me) ==
    <<Abs(ms[1] - me[1]), Abs(ms[2] - me[2]), Abs(ms[3] - me[3])>>

\* Line 71: the main direction is longer than the two others together
MainDirRule(d) ==
    d[ArgMax(d)] > (d[1] + d[2] + d[3]) - d[ArgMax(d)]

\* Line 74, when line 71 is false: the small direction is under a quarter of
\* the two others together
FirstMainDirRule(d) ==
    /\ ~ MainDirRule(d)
    /\ 4 * d[ArgMin(d)] < (d[1] + d[2] + d[3]) - d[ArgMin(d)]

\* The mean end points the orientation is resolved of: coordinates 0 .. MaxCoord
MeanPts == (0 .. MaxCoord) \X (0 .. MaxCoord) \X (0 .. MaxCoord)

\* Lines 67 to 79, of any two mean end points
ResolveOrientation ==
    /\ pc = "orientation"
    /\ LET d == DiffAbs(mean_start, mean_end)
           swap == SwapEnds(mean_start, mean_end)
       IN /\ mean_start' = IF swap THEN mean_end ELSE mean_start
          /\ mean_end' = IF swap THEN mean_start ELSE mean_end
          /\ idx' = IF FirstMainDirRule(d) THEN TieBreakAxis(ArgMin(d)) ELSE idx
          /\ pc' = IF MainDirRule(d) THEN "oriented_main_dir"
                   ELSE IF FirstMainDirRule(d) THEN "oriented_first_main_dir"
                   ELSE "oriented_vote"
    /\ UNCHANGED <<streams, point_array, normal_array, isnan, level, smooth,
                   selec_streamlines, loop_j, loop_i, center, caller,
                   compute_dist, dist, median_array, err, roiVars, outVars>>

---------------------------------------------------------------------------
(* extract_nodes *)

\* An array of zeros with a row per interior node only
InteriorRowsOfZeros(points, s) ==
    [n \in 0 .. Cardinality(DOMAIN points) - 3 |->
        [c \in 0 .. NCurves(s) - 1 |-> 0]]

\* dist = np.zeros((point_array.shape[0], len(streams._offsets)))
DistZeros(points, s) ==
    [n \in DOMAIN points |-> [c \in 0 .. NCurves(s) - 1 |-> 0]]

NodeCount(lv) == Pow2(lv) + 1

\* The index of the end of the window i of level j
WrongMidIndex(lv, j, i) == Pow2(lv - j - 1) * (2 * i + 2)

\* The index the window i of level j writes: 2**(level-j-1)*(2*i+1)
MidIndex(lv, j, i) == Pow2(lv - j - 1) * (2 * i + 1)

\* Lines 37 to 90: the end points, their orientation, the two end nodes
Orient ==
    /\ pc = "extract_nodes"
    /\ IF NCurves(streams) < 2
       THEN \* KMeans(n_clusters=2) of one sample
            /\ pc' = "raised"
            /\ err' = "ValueError"
            /\ UNCHANGED <<point_array, normal_array, isnan, level,
                           selec_streamlines, mean_start, mean_end>>
       ELSE LET sel == SelecStreamlines(streams) IN
            \E labels \in [0 .. NCurves(streams) - 1 -> {0, 1}], lv \in 0 .. MaxLevel :
            LET nan == sel = {}
                ms == IF nan THEN Zero3 ELSE VMean(sel, StartOf(streams, labels))
                me == IF nan THEN Zero3 ELSE VMean(sel, EndOf(streams, labels))
                swap == ~ nan /\ SwapEnds(ms, me)
                m_start == IF swap THEN me ELSE ms
                m_end == IF swap THEN ms ELSE me
                last == NodeCount(lv) - 1
            IN /\ selec_streamlines' = sel
               /\ isnan' = nan
               /\ level' = lv
               /\ mean_start' = m_start
               /\ mean_end' = m_end
               /\ point_array' = [n \in 0 .. last |->
                       IF n = 0 THEN m_start ELSE IF n = last THEN m_end ELSE Zero3]
               /\ normal_array' = [n \in 0 .. last |->
                       IF n \in {0, last} THEN VSub(m_start, m_end) ELSE Zero3]
               /\ pc' = IF lv = 0 THEN "bisected" ELSE "bisect"
               /\ err' = err
    /\ loop_j' = 0
    /\ loop_i' = 0
    /\ UNCHANGED <<streams, smooth, idx, center, caller, compute_dist, dist,
                   median_array,
                   roiVars, outVars>>

\* Lines 93 to 137: one window of one level
Bisect ==
    /\ pc = "bisect"
    /\ LET a == Pow2(level - loop_j - 1) * 2 * loop_i
           b == Pow2(level - loop_j - 1) * (2 * loop_i + 2)
           m == MidIndex(level, loop_j, loop_i)
           m_start == point_array[a]
           m_end == point_array[b]
           midpoint == VDiv(VAdd(m_start, m_end), 2)
           normals == [normal_array EXCEPT ![m] = VSub(m_start, m_end)]
           ix == IF isnan THEN {}
                 ELSE BisectionCrossings(streams, m_start, m_end,
                                         normals[a], normals[b])
       IN /\ normal_array' = normals
          /\ idx' = ix
          \* an empty idx is an IndexError, caught
          /\ point_array' = [point_array EXCEPT ![m] =
                 IF ix = {} THEN midpoint ELSE VMean(ix, StreamsData(streams))]
    /\ IF loop_i + 1 < Pow2(loop_j)
       THEN loop_i' = loop_i + 1 /\ loop_j' = loop_j /\ pc' = pc
       ELSE /\ loop_i' = 0
            /\ loop_j' = loop_j + 1
            /\ pc' = IF loop_j + 1 < level THEN "bisect" ELSE "bisected"
    /\ UNCHANGED <<streams, isnan, level, smooth, selec_streamlines, center,
                   mean_start, mean_end, caller, compute_dist, dist,
                   median_array, err,
                   roiVars, outVars>>

\* Lines 139 to 143: the smoothing is asked for, or the nodes are returned
Smooth ==
    /\ pc = "bisected"
    /\ \E sm \in BOOLEAN, com \in CenterPts :
          /\ smooth' = sm
          /\ IF sm
             THEN /\ pc' = "median"
                  /\ caller' = "extract_nodes"
                  /\ compute_dist' = FALSE
                  /\ center' = com
                  /\ dist' = DistZeros(point_array, streams)
                  /\ median_array' = point_array
                  /\ loop_i' = 1
             ELSE /\ pc' = "returned"
                  /\ UNCHANGED <<caller, compute_dist, center, dist,
                                 median_array, loop_i>>
    /\ UNCHANGED <<streams, point_array, normal_array, isnan, level,
                   selec_streamlines, loop_j, idx, mean_start, mean_end, err,
                   roiVars, outVars>>

---------------------------------------------------------------------------
(* get_dist_from_median_trajectory *)

\* np.median of the coordinate ax of the rows S of data
Median1(S, data, ax) ==
    LET n == Cardinality(S)
        f == [k \in S |-> data[k][ax]]
    IN IF n % 2 = 1 THEN KthSmallest(f, S, n \div 2)
       ELSE (KthSmallest(f, S, n \div 2 - 1) + KthSmallest(f, S, n \div 2)) \div 2

\* np.median(idx_pos, axis=0)
VMedian(S, data) == <<Median1(S, data, 1), Median1(S, data, 2), Median1(S, data, 3)>>

\* get_streamline_number_from_index: the curve that owns the flattened index
StreamlineNumber(s, index) ==
    CHOOSE c \in 0 .. Len(s) - 1 :
        Offsets(s)[c] <= index /\ index < Offsets(s)[c] + Lengths(s)[c]

\* np.roll(isin, -1, axis=1) is an AxisError on an array of one dimension:
\* isin has the dimensions of offsets-index, two only when index is (n,1)
RollAxis1Raises(index_ndim) == index_ndim < 2

\* idx is an array (n,1): its row idx[j] has one dimension, idx itself two
IdxRowNdim == 1

IdxNdim == 2

\* Lines 220 to 232: get_dist_from_median_trajectory of any mean trajectory
DistStart ==
    /\ pc = "get_dist"
    /\ pc' = "median"
    /\ dist' = DistZeros(point_array, streams)
    /\ median_array' = point_array
    /\ loop_i' = 1
    /\ UNCHANGED <<streams, point_array, normal_array, isnan, level, smooth,
                   selec_streamlines, loop_j, idx, center, mean_start,
                   mean_end, caller, compute_dist, err,
                   roiVars, outVars>>

\* The largest r with r*r <= n
ISqrt(n) == CHOOSE r \in 0 .. n : r * r <= n /\ n < (r + 1) * (r + 1)

\* np.linalg.norm(idx_pos - median), rounded down
Norm(v) == ISqrt(VDot(v, v))

\* Lines 270 to 273: dist[i, n] = i_dist in the order of idx, the last wins
DistRow(row, s, ix, median) ==
    LET data == StreamsData(s)
    IN [c \in DOMAIN row |->
          LET mine == {k \in ix : StreamlineNumber(s, k) = c}
          IN IF mine = {} THEN row[c]
             ELSE Norm(VSub(data[CHOOSE k \in mine : \A h \in mine : h <= k],
                            median))]

\* Lines 234 to 273: one interior node
MedianNode ==
    /\ pc = "median"
    /\ loop_i < Cardinality(DOMAIN point_array) - 1
    /\ LET ix == IF isnan THEN {}
                 ELSE MedianCrossings(streams, point_array, loop_i, center)
           median == VMedian(ix, StreamsData(streams))
       IN /\ idx' = ix
          /\ IF ix = {}
             THEN \* np.take_along_axis of an empty float array
                  /\ pc' = "raised"
                  /\ err' = "IndexError"
                  /\ UNCHANGED <<median_array, dist, loop_i>>
             ELSE /\ median_array' = [median_array EXCEPT ![loop_i] = median]
                  /\ IF ~ compute_dist
                     THEN /\ pc' = pc
                          /\ err' = err
                          /\ dist' = dist
                          /\ loop_i' = loop_i + 1
                     ELSE IF RollAxis1Raises(IdxRowNdim)
                     THEN \* get_streamline_number_from_index(streams, idx[0])
                          /\ pc' = "raised"
                          /\ err' = "AxisError"
                          /\ dist' = dist
                          /\ loop_i' = loop_i
                     ELSE /\ pc' = pc
                          /\ err' = err
                          /\ dist' = [dist EXCEPT ![loop_i] =
                                         DistRow(dist[loop_i], streams, ix, median)]
                          /\ loop_i' = loop_i + 1
    /\ UNCHANGED <<streams, point_array, normal_array, isnan, level, smooth,
                   selec_streamlines, loop_j, center, mean_start, mean_end,
                   caller, compute_dist,
                   roiVars, outVars>>

\* Line 275, and line 140 in extract_nodes
MedianReturn ==
    /\ pc = "median"
    /\ loop_i >= Cardinality(DOMAIN point_array) - 1
    /\ IF caller = "extract_nodes"
       THEN pc' = "returned" /\ point_array' = median_array
       ELSE pc' = "dist_returned" /\ point_array' = point_array
    /\ UNCHANGED <<streams, normal_array, isnan, level, smooth,
                   selec_streamlines, loop_j, loop_i, idx, center, mean_start,
                   mean_end, caller, compute_dist, dist, median_array, err,
                   roiVars, outVars>>

---------------------------------------------------------------------------
(* get_roi_sections_from_nodes *)

\* The width of a voxel in the units of the coordinates
VoxelUnit == 4

\* trk_roi.shape: ShapeX voxels along x, two along y, one along z
Shape == <<ShapeX, 2, 1>>

Voxels == (0 .. Shape[1] - 1) \X (0 .. Shape[2] - 1) \X (0 .. Shape[3] - 1)

\* The binary volumes of that shape
Volumes == [Voxels -> {0, 1}]

\* xyz: np.linspace(0.5, n-0.5, n) along each axis
VoxelCenter(v) ==
    <<VoxelUnit * v[1] + VoxelUnit \div 2,
      VoxelUnit * v[2] + VoxelUnit \div 2,
      VoxelUnit * v[3] + VoxelUnit \div 2>>

\* center: np.average of the indexes of the voxels where trk_roi == 1
CenterOfMass(vol) ==
    LET inside == {v \in DOMAIN vol : vol[v] = 1}
        n == Cardinality(inside)
    IN <<(VoxelUnit * SetSum(inside, [v \in inside |-> v[1]])) \div n,
         (VoxelUnit * SetSum(inside, [v \in inside |-> v[2]])) \div n,
         (VoxelUnit * SetSum(inside, [v \in inside |-> v[3]])) \div n>>

\* try: point_array[i-2] except IndexError: point_array[i-1].  A negative
\* index counts from the end of the array and raises nothing.
MPrevious(points, i) ==
    LET n == Cardinality(DOMAIN points)
    IN IF i - 2 >= 0 THEN points[i - 2]
       ELSE IF i - 2 >= -n THEN points[i - 2 + n]
       ELSE points[i - 1]

\* try: point_array[i+1] except IndexError: point_array[i]
MNext(points, i) ==
    IF i + 1 < Cardinality(DOMAIN points) THEN points[i + 1] ELSE points[i]

\* sign_mp_slice: the voxels between the two planes of section i, lines 516-537
SignMpSlice(points, i) ==
    LET m_prev == MPrevious(points, i)
        m_start == points[i - 1]
        m_end == points[i]
        m_nxt == MNext(points, i)
        midpoint == VDiv(VAdd(m_start, m_end), 2)
        n_start == VSub(m_prev, m_end)
        n_end == VSub(m_start, m_nxt)
        sign_mp_start == IF VDot(n_start, VSub(m_start, midpoint)) > 0 THEN 1 ELSE -1
        sign_mp_end == IF VDot(n_end, VSub(midpoint, m_end)) > 0 THEN 1 ELSE -1
    IN [v \in Voxels |->
          LET xyz == VoxelCenter(v)
              sign_xyz_start ==
                  IF VDot(n_start, VSub(m_start, xyz)) > 0 THEN 1 ELSE -1
              sign_xyz_end ==
                  IF VDot(n_end, VSub(xyz, m_end)) > 0 THEN 1 ELSE -1
          IN IF sign_xyz_start = sign_mp_start /\ sign_xyz_end = sign_mp_end
             THEN 1 ELSE 0]

\* sign_mp_com: the voxels on the side of the midpoint from the center of
\* mass, lines 540-542; the center of an empty volume is NaN
SignMpCom(points, i, vol) ==
    LET midpoint == VDiv(VAdd(points[i - 1], points[i]), 2)
        com == CenterOfMass(vol)
        empty == \A w \in DOMAIN vol : vol[w] = 0
    IN [v \in Voxels |->
          IF empty THEN 0
          ELSE IF VDot(VSub(midpoint, com), VSub(VoxelCenter(v), com)) > 0
          THEN 1 ELSE 0]

\* sign_mp_slice.reshape(trk_roi.shape), not multiplied by trk_roi
SliceOutOfTheBundle(points, i, vol) == SignMpSlice(points, i)

\* roi_mp_slice = sign_mp_slice.reshape(trk_roi.shape)*trk_roi
RoiMpSlice(points, i, vol) ==
    LET sign_mp_slice == SignMpSlice(points, i)
    IN [v \in Voxels |-> sign_mp_slice[v] * vol[v]]

\* roi_mp_com = sign_mp_com.reshape(trk_roi.shape)*trk_roi
RoiMpCom(points, i, vol) ==
    LET sign_mp_com == SignMpCom(points, i, vol)
    IN [v \in Voxels |-> sign_mp_com[v] * vol[v]]

\* Two voxels that share a face: connectivity=1
FaceNeighbours(v, w) ==
    Abs(v[1] - w[1]) + Abs(v[2] - w[2]) + Abs(v[3] - w[3]) = 1

\* skimage.morphology.flood: the voxels joined to the seed through voxels
\* whose value is within the tolerance of the value of the seed
RECURSIVE Grow(_, _)
Grow(region, allowed) ==
    LET more == {w \in allowed \ region :
                    \E v \in region : FaceNeighbours(v, w)}
    IN IF more = {} THEN region ELSE Grow(region \cup more, allowed)

Flood(image, seed, tolerance) ==
    LET seed_value == image[seed]
    IN Grow({seed}, {v \in DOMAIN image :
                        Abs(image[v] - seed_value) <= tolerance})

FloodTolerance == 1

\* roi alone, not multiplied by roi_mp_slice
UnmaskedFloodImage(score, slice) == score

\* roi*roi_mp_slice: the image the flood runs over
FloodImage(score, slice) ==
    [v \in DOMAIN score |-> score[v] * slice[v]]

\* dot = tuple(np.floor(midpoint).astype(int))
MidpointVoxel(points, i) ==
    LET midpoint == VDiv(VAdd(points[i - 1], points[i]), 2)
    IN <<midpoint[1] \div VoxelUnit, midpoint[2] \div VoxelUnit,
         midpoint[3] \div VoxelUnit>>

\* Lines 488 to 499
RoiStart ==
    /\ pc = "get_roi"
    /\ pc' = "roi_loop"
    /\ mask' = [v \in DOMAIN trk_roi |-> 0]
    /\ loop_i' = 1
    /\ UNCHANGED <<streams, point_array, idx, center, err, nodesVars, distVars,
                   trk_roi, simplify_shape, m_previous, m_next, roi_mp_slice,
                   roi_score, roi, outVars>>

\* Lines 501 to 556: the section i, from node i-1 to node i
RoiSection ==
    /\ pc = "roi_loop"
    /\ loop_i < Cardinality(DOMAIN point_array)
    /\ LET slice == RoiMpSlice(point_array, loop_i, trk_roi)
           com == RoiMpCom(point_array, loop_i, trk_roi)
           score == [v \in Voxels |-> slice[v] + com[v]]
           dot == MidpointVoxel(point_array, loop_i)
           roi_connec == Flood(FloodImage(score, slice), dot, FloodTolerance)
           final == IF score[dot] = 2
                    THEN [v \in Voxels |->
                                      IF v \in roi_connec THEN 2 ELSE 0]
                    ELSE score
       IN /\ m_previous' = MPrevious(point_array, loop_i)
          /\ m_next' = MNext(point_array, loop_i)
          /\ roi_mp_slice' = slice
          /\ roi_score' = score
          /\ IF ~ simplify_shape
             THEN /\ roi' = score
                  /\ mask' = [v \in Voxels |->
                                IF score[v] = 2 THEN loop_i ELSE mask[v]]
                  /\ loop_i' = loop_i + 1
                  /\ pc' = pc
                  /\ err' = err
             ELSE IF dot \notin Voxels
             THEN \* roi[dot] out of the volume
                  /\ pc' = "raised"
                  /\ err' = "IndexError"
                  /\ UNCHANGED <<roi, mask, loop_i>>
             ELSE /\ roi' = final
                  /\ mask' = [v \in Voxels |->
                                IF final[v] = 2 THEN loop_i ELSE mask[v]]
                  /\ loop_i' = loop_i + 1
                  /\ pc' = pc
                  /\ err' = err
    /\ UNCHANGED <<streams, point_array, idx, center, nodesVars, distVars,
                   trk_roi, simplify_shape, outVars>>

\* Line 558
RoiReturn ==
    /\ pc = "roi_loop"
    /\ loop_i >= Cardinality(DOMAIN point_array)
    /\ pc' = "roi_returned"
    /\ UNCHANGED <<streams, point_array, loop_i, idx, center, err, nodesVars,
                   distVars, roiVars, outVars>>

---------------------------------------------------------------------------
(* remove_outlier_streamlines *)

\* The values of the kernel density at a crossing, in units of t/2: the
\* density of a point is positive, its own kernel counts
DensValues == {1, 3}

\* t = neighbors_required/(2*np.pi*bandwidth**2), in the same units
Thresholds == {2, 3}

\* outlier_ratio and keep_ratio: fractions <<numerator, denominator>>
OutlierRatios == {<<1, 2>>, <<1, 1>>}

KeepRatios == {<<1, 2>>, <<1, 3>>}

\* neighbors_required_dir: 1, 2 or the default of line 284
NeighborsRequiredDir == {1, 2, 10}

Min(S) == CHOOSE x \in S : \A y \in S : x <= y

\* dens = np.zeros((point_array.shape[0], len(streams._offsets)))
DensZeros(points, s) ==
    [n \in DOMAIN points |-> [c \in 0 .. NCurves(s) - 1 |-> 0]]

\* dens[i, n[kde_decrease_idx]] = kde[kde_decrease_idx]: written by decreasing
\* density, a curve that crosses the plane more than once keeps its lowest
DensRow(row, s, ix, kde) ==
    [c \in DOMAIN row |->
        LET mine == {k \in ix : StreamlineNumber(s, k) = c}
        IN IF mine = {} THEN row[c] ELSE Min({kde[k] : k \in mine})]

\* dens > m, m = np.mean(dens, axis=1, where=dens != 0) of the row
AboveRowMean(row, c) ==
    LET seen == {b \in DOMAIN row : row[b] # 0}
    IN seen # {} /\ row[c] * Cardinality(seen) > SetSum(seen, row)

\* outliers = dens <= t, False where dens == 0 and where dens > m
Outlier(d, tt, n, c) ==
    d[n][c] <= tt /\ d[n][c] # 0 /\ ~ AboveRowMean(d[n], c)

\* n_sign = np.sum(outliers[1:-1, :], axis=0)
NSign(d, tt) ==
    LET last == Cardinality(DOMAIN d) - 1
    IN [c \in DOMAIN d[0] |->
           Cardinality({n \in 1 .. last - 1 : Outlier(d, tt, n, c)})]

\* n_val = np.sum(dens > 0, axis=0)
NVal(d) ==
    [c \in DOMAIN d[0] |-> Cardinality({n \in DOMAIN d : d[n][c] > 0})]

\* n_idx = np.argwhere(n_sign > n_val*outlier_ratio)
Flagged(d, tt, ratio) ==
    LET n_sign == NSign(d, tt)
        n_val == NVal(d)
    IN {c \in DOMAIN d[0] : n_sign[c] * ratio[2] > n_val[c] * ratio[1]}

\* len(n_idx) > keep_ratio*len(n_sign)
OverKeepRatio(ix, ncurves, keep) == Cardinality(ix) * keep[2] > keep[1] * ncurves

\* keep_num_idx = int(len(n_sign)*keep_ratio)
KeepNum(ncurves, keep) == (ncurves * keep[1]) \div keep[2]

\* np.argsort(-n_sign)[:keep_num_idx]: the first curves by decreasing n_sign;
\* the sort is not stable, equal counts come in any order
FirstBySign(n_sign, keep_num) ==
    {S \in SUBSET DOMAIN n_sign :
        /\ Cardinality(S) = keep_num
        /\ \A a \in S : \A b \in (DOMAIN n_sign) \ S : n_sign[a] >= n_sign[b]}

\* n_idx_gaus = np.argwhere(dens < thresh): dens[c]*2*pi*bw**2 is the sum of
\* the kernels exp(-d**2/(2*bw**2)) of the directions of all the curves, of
\* which its own is 1, and thresh*2*pi*bw**2 is neighbors_required_dir
DirectionOutliers(s, nb) ==
    {G \in SUBSET (0 .. NCurves(s) - 1) :
        /\ nb > NCurves(s) => G = 0 .. NCurves(s) - 1
        /\ nb <= 1 => G = {}}

\* np.concatenate((n_idx, n_idx_gaus)): arrays of the same number of dimensions
ConcatenateRaises(ndim_a, ndim_b) == ndim_a # ndim_b

\* Lines 328 to 337
OutStart ==
    /\ pc = "remove_outlier"
    /\ pc' = "density"
    /\ dens' = DensZeros(point_array, streams)
    /\ loop_i' = 1
    /\ UNCHANGED <<streams, point_array, idx, center, err, nodesVars, distVars,
                   roiVars, t, outlier_ratio, keep_ratio, remove_outlier_dir,
                   neighbors_required_dir, n_idx, capped, removed>>

\* Lines 339 to 383: the densities of the crossings of the plane of node i
DensityNode ==
    /\ pc = "density"
    /\ loop_i < Cardinality(DOMAIN point_array) - 1
    /\ LET ix == DensityCrossings(streams, point_array, loop_i)
       IN /\ idx' = ix
          /\ IF ix = {}
             THEN \* np.take_along_axis of an empty float index
                  /\ pc' = "raised"
                  /\ err' = "IndexError"
                  /\ UNCHANGED <<dens, loop_i>>
             ELSE /\ \E kde \in [ix -> DensValues] :
                        dens' = [dens EXCEPT ![loop_i] =
                                    DensRow(dens[loop_i], streams, ix, kde)]
                  /\ loop_i' = loop_i + 1
                  /\ UNCHANGED <<pc, err>>
    /\ UNCHANGED <<streams, point_array, center, nodesVars, distVars, roiVars,
                   t, outlier_ratio, keep_ratio, remove_outlier_dir,
                   neighbors_required_dir, n_idx, capped, removed>>

\* Lines 385 to 397, where the parameters of the filter are first read
Classify ==
    /\ pc = "density"
    /\ loop_i >= Cardinality(DOMAIN point_array) - 1
    /\ t' \in Thresholds
    /\ outlier_ratio' \in OutlierRatios
    /\ n_idx' = Flagged(dens, t', outlier_ratio')
    /\ pc' = "cap"
    /\ UNCHANGED <<streams, point_array, loop_i, idx, center, err, nodesVars,
                   distVars, roiVars, dens, keep_ratio, remove_outlier_dir,
                   neighbors_required_dir, capped, removed>>

\* Lines 399 to 403
Cap ==
    /\ pc = "cap"
    /\ keep_ratio' \in KeepRatios
    /\ remove_outlier_dir' \in BOOLEAN
    /\ IF OverKeepRatio(n_idx, NCurves(streams), keep_ratio')
       THEN /\ n_idx' \in FirstBySign(NSign(dens, t),
                                     KeepNum(NCurves(streams), keep_ratio'))
            /\ capped' = TRUE
       ELSE UNCHANGED <<n_idx, capped>>
    /\ pc' = IF remove_outlier_dir' THEN "dir" ELSE "remove"
    /\ UNCHANGED <<streams, point_array, loop_i, idx, center, err, nodesVars,
                   distVars, roiVars, dens, t, outlier_ratio,
                   neighbors_required_dir, removed>>

\* Lines 405 to 451: the outliers of direction
DirPass ==
    /\ pc = "dir"
    /\ neighbors_required_dir' \in NeighborsRequiredDir
    /\ IF NCurves(streams) < 2
       THEN \* KMeans(n_clusters=2) of one sample
            /\ pc' = "raised"
            /\ err' = "ValueError"
            /\ UNCHANGED n_idx
       ELSE IF SelecStreamlines(streams) = {}
       THEN \* KernelDensity.fit of angles from a NaN average_dir
            /\ pc' = "raised"
            /\ err' = "ValueError"
            /\ UNCHANGED n_idx
       ELSE IF ConcatenateRaises(IF capped THEN 1 ELSE 2, 2)
       THEN /\ pc' = "raised"
            /\ err' = "ValueError"
            /\ UNCHANGED n_idx
       ELSE /\ \E n_idx_gaus \in
                    DirectionOutliers(streams, neighbors_required_dir') :
                  n_idx' = n_idx \cup n_idx_gaus
            /\ pc' = "remove"
            /\ err' = err
    /\ UNCHANGED <<streams, point_array, loop_i, idx, center, nodesVars,
                   distVars, roiVars, dens, t, outlier_ratio, keep_ratio,
                   remove_outlier_dir, capped, removed>>

\* Lines 453 to 462, and remove_streamlines: lines 190 to 193
Remove ==
    /\ pc = "remove"
    /\ removed' = {c \in 0 .. NCurves(streams) - 1 : c \in n_idx}
    /\ pc' = "out_returned"
    /\ UNCHANGED <<streams, point_array, loop_i, idx, center, err, nodesVars,
                   distVars, roiVars, dens, t, outlier_ratio, keep_ratio,
                   remove_outlier_dir, neighbors_required_dir, n_idx, capped>>

---------------------------------------------------------------------------
(* The detectors of crossings on their own: the plane of node 1 of three *)

\* Lines 95 to 130, of the window from node 0 to node 2
CrossBisection ==
    /\ pc = "plane"
    /\ \E normal_previous, normal_next \in
             {VSub(point_array[0], point_array[2]),
              VSub(point_array[0], point_array[1])} :
          idx' = BisectionCrossings(streams, point_array[0], point_array[2],
                                    normal_previous, normal_next)
    /\ pc' = "bisection_idx"
    /\ UNCHANGED <<streams, point_array, normal_array, isnan, level, smooth,
                   selec_streamlines, loop_j, loop_i, center, mean_start,
                   mean_end, caller, compute_dist, dist, median_array, err,
                   roiVars, outVars>>

\* Lines 241 to 255
CrossMedian ==
    /\ pc = "plane"
    /\ idx' = MedianCrossings(streams, point_array, 1, center)
    /\ pc' = "median_idx"
    /\ UNCHANGED <<streams, point_array, normal_array, isnan, level, smooth,
                   selec_streamlines, loop_j, loop_i, center, mean_start,
                   mean_end, caller, compute_dist, dist, median_array, err,
                   roiVars, outVars>>

\* Lines 346 to 356
CrossDensity ==
    /\ pc = "plane"
    /\ idx' = DensityCrossings(streams, point_array, 1)
    /\ pc' = "density_idx"
    /\ UNCHANGED <<streams, point_array, normal_array, isnan, level, smooth,
                   selec_streamlines, loop_j, loop_i, center, mean_start,
                   mean_end, caller, compute_dist, dist, median_array, err,
                   roiVars, outVars>>

---------------------------------------------------------------------------
(* Specifications *)

NodesIdle ==
    /\ normal_array = <<>>
    /\ isnan = FALSE
    /\ level = 0
    /\ smooth = FALSE
    /\ selec_streamlines = {}
    /\ loop_j = 0
    /\ mean_start = Zero3
    /\ mean_end = Zero3

RoiIdle ==
    /\ trk_roi = <<>>
    /\ simplify_shape = FALSE
    /\ mask = <<>>
    /\ m_previous = Zero3
    /\ m_next = Zero3
    /\ roi_mp_slice = <<>>
    /\ roi_score = <<>>
    /\ roi = <<>>

OutIdle ==
    /\ dens = <<>>
    /\ t = 0
    /\ outlier_ratio = <<1, 2>>
    /\ keep_ratio = <<1, 2>>
    /\ remove_outlier_dir = FALSE
    /\ neighbors_required_dir = 10
    /\ n_idx = {}
    /\ capped = FALSE
    /\ removed = {}

InitCommon ==
    /\ loop_i = 0
    /\ idx = {}
    /\ dist = <<>>
    /\ median_array = <<>>
    /\ err = "none"
    /\ NodesIdle

\* extract_nodes(trk_file, level, smooth) of any curve-set
InitNodes ==
    /\ pc = "extract_nodes"
    /\ streams \in StreamSets
    /\ point_array = <<>>
    /\ center = Zero3
    /\ caller = "none"
    /\ compute_dist = FALSE
    /\ InitCommon
    /\ RoiIdle
    /\ OutIdle

NextNodes == Orient \/ Bisect \/ Smooth \/ MedianNode \/ MedianReturn

SpecNodes == InitNodes /\ [][NextNodes]_vars

\* get_dist_from_median_trajectory(trk_file, point_array, compute_dist)
InitDist ==
    /\ pc = "get_dist"
    /\ streams \in StreamSets
    /\ point_array \in Skeletons
    /\ center \in CenterPts
    /\ caller = "get_dist"
    /\ compute_dist \in BOOLEAN
    /\ InitCommon
    /\ RoiIdle
    /\ OutIdle

NextDist == DistStart \/ MedianNode \/ MedianReturn

SpecDist == InitDist /\ [][NextDist]_vars

\* The three detectors of crossings, of any plane and any curve-set
InitCross ==
    /\ pc = "plane"
    /\ streams \in StreamSets
    /\ point_array \in [0 .. 2 -> NodePts]
    /\ center \in CenterPts
    /\ caller = "none"
    /\ compute_dist = FALSE
    /\ InitCommon
    /\ RoiIdle
    /\ OutIdle

NextCross == CrossBisection \/ CrossMedian \/ CrossDensity

SpecCross == InitCross /\ [][NextCross]_vars

\* get_roi_sections_from_nodes(trk_file, point_array, simplify_shape)
InitRoi ==
    /\ pc = "get_roi"
    /\ streams = <<>>
    /\ point_array \in PolylineSkeletons
    /\ trk_roi \in Volumes
    /\ simplify_shape \in BOOLEAN
    /\ center = Zero3
    /\ caller = "none"
    /\ compute_dist = FALSE
    /\ mask = <<>>
    /\ m_previous = Zero3
    /\ m_next = Zero3
    /\ roi_mp_slice = <<>>
    /\ roi_score = <<>>
    /\ roi = <<>>
    /\ InitCommon
    /\ OutIdle

NextRoi == RoiStart \/ RoiSection \/ RoiReturn

SpecRoi == InitRoi /\ [][NextRoi]_vars

\* remove_outlier_streamlines(trk_file, point_array, ...)
InitOut ==
    /\ pc = "remove_outlier"
    /\ streams \in OutStreamSets
    /\ point_array \in OutSkeletons
    /\ center = Zero3
    /\ caller = "none"
    /\ compute_dist = FALSE
    /\ InitCommon
    /\ RoiIdle
    /\ OutIdle

NextOut == OutStart \/ DensityNode \/ Classify \/ Cap \/ DirPass \/ Remove

SpecOut == InitOut /\ [][NextOut]_vars

\* The orientation of any two mean end points
InitOrient ==
    /\ pc = "orientation"
    /\ streams = <<>>
    /\ point_array = <<>>
    /\ mean_start \in MeanPts
    /\ mean_end \in MeanPts
    /\ normal_array = <<>>
    /\ isnan = FALSE
    /\ level = 0
    /\ smooth = FALSE
    /\ selec_streamlines = {}
    /\ loop_j = 0
    /\ loop_i = 0
    /\ idx = {}
    /\ dist = <<>>
    /\ median_array = <<>>
    /\ err = "none"
    /\ center = Zero3
    /\ caller = "none"
    /\ compute_dist = FALSE
    /\ RoiIdle
    /\ OutIdle

NextOrient == ResolveOrientation

SpecOrient == InitOrient /\ [][NextOrient]_vars

---------------------------------------------------------------------------
(* Claims about extract_nodes, under SpecNodes *)

\* C1: from the allocation of the nodes to the return, extract_nodes holds
\* exactly 2^level + 1 nodes, and node 0 and node 2^level are the resolved
\* mean_start and mean_end: no window of the bisection writes them and the
\* smoothing pass (median_array) leaves them as they are.
C1_NodeCountAndEnds ==
    pc \in {"bisect", "bisected", "median", "returned"} =>
        /\ DOMAIN point_array = 0 .. Pow2(level)
        /\ point_array[0] = mean_start
        /\ point_array[Pow2(level)] = mean_end
        /\ pc = "median" =>
              /\ DOMAIN median_array = 0 .. Pow2(level)
              /\ median_array[0] = mean_start
              /\ median_array[Pow2(level)] = mean_end

\* A smoothed skeleton of 5 nodes of a bundle with distinct ends is returned
C1_Witness ==
    /\ pc = "returned"
    /\ smooth
    /\ level = 2
    /\ ~ isnan
    /\ mean_start # mean_end

\* C6: a plane at which no point survives the crossing filters never makes
\* extract_nodes fail: no exception ends it with an empty idx (the bundle
\* has long streamlines to average: its nodes are numbers, not NaN).
C6_EmptyPlaneNeverRaises ==
    ~ (pc = "raised" /\ caller = "extract_nodes" /\ idx = {} /\ ~ isnan)

\* C7: every curve whose length L satisfies Q3 <= L <= Q3 + 1.5*IQR is in
\* the selection the end points are averaged over.
C7_SelectionClosedAtQ3 ==
    (pc # "extract_nodes" /\ err # "ValueError") =>
        \A c \in 0 .. NCurves(streams) - 1 :
            (/\ 4 * Lengths(streams)[c] >= Q3x4(streams)
             /\ 8 * Lengths(streams)[c] <=
                    2 * Q3x4(streams) + 3 * (Q3x4(streams) - Q1x4(streams)))
                => c \in selec_streamlines

---------------------------------------------------------------------------
(* Claims about the detectors of crossings, under SpecCross *)

\* The sign changes of the plane of node 1 between two adjacent flattened
\* points that are not of the same curve (the wrap to index 0 included)
BoundaryChanges ==
    LET data == StreamsData(streams)
        n == Cardinality(DOMAIN data)
        normal == VSub(point_array[0], point_array[2])
        sign == IF pc = "bisection_idx"
                THEN Sign01(data, VDiv(VAdd(point_array[0], point_array[2]), 2),
                            normal)
                ELSE Sign01(data, point_array[1], normal)
    IN {k \in DOMAIN data :
           /\ sign[(k + n - 1) % n] # sign[k]
           /\ StreamlineNumber(streams, (k + n - 1) % n)
                  # StreamlineNumber(streams, k)}

\* C3: no detector reports the first point of a curve: a reported index k
\* is never 0 and the point before it is a point of the same curve.
C3_NoCrossingAtCurveBoundary ==
    pc \in {"bisection_idx", "median_idx", "density_idx"} =>
        \A k \in idx :
            /\ k > 0
            /\ StreamlineNumber(streams, k - 1) = StreamlineNumber(streams, k)

\* The plane separates the last point of a curve from the first of the next
\* and the last point of all from the first of all, and crossings are reported
C3_Witness ==
    /\ pc \in {"bisection_idx", "median_idx", "density_idx"}
    /\ 0 \in BoundaryChanges
    /\ BoundaryChanges \ {0} # {}
    /\ idx # {}

---------------------------------------------------------------------------
(* Claims about get_dist_from_median_trajectory, under SpecDist *)

\* The crossings of curve c that survive the filters at the interior node n
SurvivingCrossings(n, c) ==
    {k \in MedianCrossings(streams, point_array, n, center) :
        StreamlineNumber(streams, k) = c}

DistEntriesSound ==
    \A n \in DOMAIN dist : \A c \in DOMAIN dist[n] :
        /\ dist[n][c] >= 0
        /\ (n \in {0, Cardinality(DOMAIN point_array) - 1}
                \/ SurvivingCrossings(n, c) = {}) => dist[n][c] = 0

---------------------------------------------------------------------------
(* Claims about get_roi_sections_from_nodes, under SpecRoi *)

\* The voxels the pass of the last section labelled: mask[roi == 2] = i
Labelled == {v \in DOMAIN roi : roi[v] = 2}

\* The voxels that score 2 for the last section, before any flood
ScoreTwo == {v \in DOMAIN roi_score : roi_score[v] = 2}

\* C5: from its allocation to the return, the labelled volume has the shape
\* of the occupancy volume, every nonzero label is a section number in
\* 1 .. node_count - 1 and every nonzero voxel is a voxel of the occupancy mask.
C5_LabelsInRangeAndInMask ==
    pc \in {"roi_loop", "roi_returned"} =>
        /\ DOMAIN mask = DOMAIN trk_roi
        /\ \A v \in DOMAIN mask :
              mask[v] # 0 =>
                  /\ mask[v] \in 1 .. Cardinality(DOMAIN point_array) - 1
                  /\ trk_roi[v] = 1

\* A simplified partition that holds two labels is returned, of a volume
\* that has voxels out of the bundle between the planes of its last section
C5_Witness ==
    /\ pc = "roi_returned"
    /\ simplify_shape
    /\ {1, 2} \subseteq Range(mask)
    /\ \E v \in Voxels :
          trk_roi[v] = 0 /\ SignMpSlice(point_array, loop_i - 1)[v] = 1

\* C9: the neighbours of a section are clamped at the ends of the sequence:
\* the section i = loop_i - 1 that has just run took node i-2 as previous
\* node, or node i-1 where there is none, and node i+1 as next node, or
\* node i where there is none.
C9_NeighboursClamped ==
    (pc = "roi_loop" /\ loop_i >= 2) =>
        LET i == loop_i - 1
            n == Cardinality(DOMAIN point_array)
        IN /\ m_previous = point_array[IF i - 2 >= 0 THEN i - 2 ELSE i - 1]
           /\ m_next = point_array[IF i + 1 < n THEN i + 1 ELSE i]

---------------------------------------------------------------------------
(* Claims about remove_outlier_streamlines, under SpecOut *)

\* C2: remove_outlier_streamlines never removes more than the fraction
\* keep_ratio of the curves, with the outliers of direction or without.
C2_RemovedWithinKeepRatio ==
    pc = "out_returned" =>
        Cardinality(removed) * keep_ratio[2] <= keep_ratio[1] * NCurves(streams)

---------------------------------------------------------------------------
(* Claims about the orientation of extract_nodes, under SpecOrient *)

\* The axis that is neither a nor b, of two axes a # b
ThirdAxis(a, b) == CHOOSE c \in 1 .. 3 : c # a /\ c # b

\* C11, as claimed: where the swap is decided by the rule of the small
\* direction, the axis used is neither the axis of the smallest component of
\* d nor the axis of the largest, and mean_start <= mean_end on it afterwards.
C11_AxisNeitherSmallNorMain ==
    pc = "oriented_first_main_dir" =>
        LET d == DiffAbs(mean_start, mean_end)
        IN /\ idx = ThirdAxis(ArgMin(d), ArgMax(d))
           /\ mean_start[ThirdAxis(ArgMin(d), ArgMax(d))]
                  <= mean_end[ThirdAxis(ArgMin(d), ArgMax(d))]

\* C11, amended: where the swap is decided by the rule of the small
\* direction, the axis used is the first of the two axes that are not the
\* axis of the smallest component of d (x, or y where x is the smallest),
\* the axis of the largest component or not, and mean_start <= mean_end on
\* it afterwards.
C11_FirstAxisNotSmall ==
    pc = "oriented_first_main_dir" =>
        LET d == DiffAbs(mean_start, mean_end)
            first == Min({1, 2, 3} \ {ArgMin(d)})
        IN /\ idx = first
           /\ mean_start[first] <= mean_end[first]

\* The rule of the small direction decided on the axis of the one largest
\* component of d, and the end points are apart on the axis the two rules leave
C11_Witness ==
    /\ pc = "oriented_first_main_dir"
    /\ LET d == DiffAbs(mean_start, mean_end)
       IN /\ idx = ArgMax(d)
          /\ \A a \in {1, 2, 3} \ {ArgMax(d)} : d[a] < d[ArgMax(d)]
          /\ mean_start[idx] < mean_end[idx]
          /\ mean_start[ThirdAxis(ArgMin(d), ArgMax(d))]
                 > mean_end[ThirdAxis(ArgMin(d), ArgMax(d))]

=============================================================================
